---------------------------- MODULE Spec2Model ----------------------------
(***************************************************************************)
(* Model of the classification and aggregation core of src/main.py:       *)
(* process_transactions, calculate_in_params and calculate_out_params, as *)
(* analyze_addresses applies them to the transactions fetched for one     *)
(* address (Spec), and of the loop of analyze_addresses over a list of    *)
(* addresses (SpecAnalyze).                                               *)
(*                                                                        *)
(* Python values.  A dict is a function whose DOMAIN is the set of keys   *)
(* present, so that d.get(k, default) is Get(d, k, default).  TLC compares*)
(* only like with like, so Python's None is written NoneAddr where a      *)
(* string is expected, NoneDict where a dict is expected and NoneList     *)
(* where a list is expected.  Floats are exact rationals [num, den] in    *)
(* lowest terms: rounding is not modelled.                                *)
(***************************************************************************)
EXTENDS Integers, Sequences, FiniteSets, TLC

VARIABLES transactions, target_address, pc, exc, in_txs, out_txs,
          in_params, out_params,
          addresses, responses, addr_index, address_data, results_list,
          retries, requests, sleeps, fetch_calls

\* the state of the loop of analyze_addresses: the address list, what
\* fetch_address_data meets for each position of it, the position reached
\* (i of enumerate), the fetched address data and the records so far
loop_vars == <<addresses, responses, addr_index, address_data, results_list>>

\* the state of fetch_address_data and the clock: the retries counted for
\* the address, the HTTP requests issued for it, the delays slept since the
\* last request, and the addresses fetch_address_data was called with
fetch_vars == <<retries, requests, sleeps, fetch_calls>>

vars == <<transactions, target_address, pc, exc, in_txs, out_txs,
          in_params, out_params, loop_vars, fetch_vars>>

---------------------------------------------------------------------------
(* Python values *)

NoneAddr == "None"

NoneDict == [none |-> TRUE]

\* no list of the model holds None as an element
NoneList == <<NoneDict>>

EmptyDict == [k \in {} |-> 0]

Get(d, key, default) == IF key \in DOMAIN d THEN d[key] ELSE default

\* `if addr:` -- None and the empty string are falsy
Truthy(addr) == addr # NoneAddr /\ addr # ""

---------------------------------------------------------------------------
(* The inputs: every transaction list of bounded size *)

\* A transaction counts 1, each of its inputs and outputs counts 1.
MaxSize == 5

Targets == {"A", ""}

\* inputs with prev_out.addr, one with no prev_out key, one with prev_out null
InputVals ==
    {[prev_out |-> [addr |-> a]] : a \in {"A", "B", ""}}
        \cup {EmptyDict, [prev_out |-> NoneDict]}

\* outputs with addr and value, one with no value key, one with no addr key
OutVals ==
    {[addr |-> "A", value |-> 30000000],
     [addr |-> "B", value |-> 50000000],
     [addr |-> "C"],
     [addr |-> "", value |-> 100000000],
     [value |-> 50000000]}

\* a transaction of the given inputs and outputs; an empty list is a
\* missing key, which tx.get(key, []) reads as the empty list
Tx(ins, outs) ==
    IF ins = <<>> /\ outs = <<>> THEN EmptyDict
    ELSE IF ins = <<>> THEN [out |-> outs]
    ELSE IF outs = <<>> THEN [inputs |-> ins]
    ELSE [inputs |-> ins, out |-> outs]

TxOfSize(s) ==
    UNION {{Tx(a, b) : a \in [1..i -> InputVals], b \in [1..(s - i) -> OutVals]}
              : i \in 0..s}

RECURSIVE TxLists(_)
TxLists(budget) ==
    {<<>>} \cup
    UNION {{<<tx>> \o rest : tx \in TxOfSize(s), rest \in TxLists(budget - 1 - s)}
              : s \in 0..(budget - 1)}

\* the worked examples: recipients [X, X, Y] with 3.0 coins transferred;
\* 0.5 coin to B with 0.3 coin of change back to A; 1.2 coins to A from C
ExampleXXY ==
    <<[inputs |-> <<[prev_out |-> [addr |-> "A"]]>>,
       out |-> <<[addr |-> "B", value |-> 100000000],
                 [addr |-> "B", value |-> 150000000]>>],
      [inputs |-> <<[prev_out |-> [addr |-> "A"]]>>,
       out |-> <<[addr |-> "C", value |-> 50000000]>>]>>

ExampleChange ==
    <<[inputs |-> <<[prev_out |-> [addr |-> "A"]]>>,
       out |-> <<[addr |-> "B", value |-> 50000000],
                 [addr |-> "A", value |-> 30000000]>>]>>

ExampleReceive ==
    <<[inputs |-> <<[prev_out |-> [addr |-> "C"]]>>,
       out |-> <<[addr |-> "A", value |-> 120000000]>>]>>

\* three sending transactions with 3, 5 and 7 recipients; four receiving
\* transactions of 2 coins each
ExampleCounts357 ==
    [i \in 1..3 |->
        [inputs |-> <<[prev_out |-> [addr |-> "A"]]>>,
         out |-> [j \in 1..(2 * i + 1) |-> [addr |-> "B", value |-> 10000000]]]]

ExampleCoins2222 ==
    [i \in 1..4 |->
        [inputs |-> <<[prev_out |-> [addr |-> "C"]]>>,
         out |-> <<[addr |-> "A", value |-> 200000000]>>]]

Examples ==
    {ExampleXXY, ExampleChange, ExampleReceive, ExampleCounts357, ExampleCoins2222}

---------------------------------------------------------------------------
(* process_transactions *)

\* the loop over tx.get('inputs', []): "match" at the first input whose
\* prev_out.addr is the target (break), "raise" when it comes to an input
\* whose prev_out is None (None has no .get) before any match
RECURSIVE ScanInputs(_, _)
ScanInputs(inputs, target) ==
    IF inputs = <<>> THEN "nomatch"
    ELSE LET prev_out == Get(Head(inputs), "prev_out", EmptyDict)
         IN  IF prev_out = NoneDict THEN "raise"
             ELSE IF Get(prev_out, "addr", NoneAddr) = target THEN "match"
             ELSE ScanInputs(Tail(inputs), target)

\* a plausible slip: only the first input is looked at
is_in_tx_first_only(tx, target) ==
    LET inputs == Get(tx, "inputs", <<>>)
    IN  IF inputs = <<>> THEN "nomatch" ELSE ScanInputs(<<Head(inputs)>>, target)

is_in_tx(tx, target) == ScanInputs(Get(tx, "inputs", <<>>), target)

RECURSIVE ScanOutputs(_, _)
ScanOutputs(out, target) ==
    IF out = <<>> THEN FALSE
    ELSE IF Get(Head(out), "addr", NoneAddr) = target THEN TRUE
    ELSE ScanOutputs(Tail(out), target)

\* a plausible slip: any transaction with an output counts as receiving
is_out_tx_any_output(tx, target) == Get(tx, "out", <<>>) # <<>>

is_out_tx(tx, target) == ScanOutputs(Get(tx, "out", <<>>), target)

\* plausible slips: the transaction is put in front, or appended twice
append_tx_front(txs, tx) == <<tx>> \o txs

append_tx_twice(txs, tx) == Append(Append(txs, tx), tx)

append_tx(txs, tx) == Append(txs, tx)

Raised == [raised |-> TRUE]

RECURSIVE ClassifyLoop(_, _, _, _)
ClassifyLoop(txs, target, ins, outs) ==
    IF txs = <<>> THEN [raised |-> FALSE, in_txs |-> ins, out_txs |-> outs]
    ELSE LET tx == Head(txs)
             in_flag == is_in_tx(tx, target)
         IN  IF in_flag = "raise" THEN Raised
             ELSE ClassifyLoop(Tail(txs), target,
                      IF in_flag = "match" THEN append_tx(ins, tx) ELSE ins,
                      IF is_out_tx(tx, target) THEN append_tx(outs, tx) ELSE outs)

\* a plausible slip: the two lists are not started afresh for each call
process_transactions_accumulating(txs, target) ==
    ClassifyLoop(txs, target, in_txs, out_txs)

process_transactions(txs, target) == ClassifyLoop(txs, target, <<>>, <<>>)

---------------------------------------------------------------------------
(* Arithmetic: Python's float division and numpy's reducers, exactly *)

RECURSIVE GCD(_, _)
GCD(a, b) == IF b = 0 THEN a ELSE GCD(b, a % b)

\* n / d for d > 0, in lowest terms
Rat(n, d) ==
    LET g == GCD(IF n < 0 THEN -n ELSE n, d)
    IN  [num |-> n \div g, den |-> d \div g]

Zero == Rat(0, 1)

RatAdd(a, b) == Rat(a.num * b.den + b.num * a.den, a.den * b.den)

RatSub(a, b) == Rat(a.num * b.den - b.num * a.den, a.den * b.den)

RatMul(a, b) == Rat(a.num * b.num, a.den * b.den)

RatDivInt(a, k) == Rat(a.num, a.den * k)

RatLess(a, b) == a.num * b.den < b.num * a.den

RECURSIVE SumInts(_)
SumInts(xs) == IF xs = <<>> THEN 0 ELSE Head(xs) + SumInts(Tail(xs))

RECURSIVE SumRats(_)
SumRats(xs) == IF xs = <<>> THEN Zero ELSE RatAdd(Head(xs), SumRats(Tail(xs)))

ToRats(xs) == [i \in 1..Len(xs) |-> Rat(xs[i], 1)]

\* np.mean, np.max, np.min of a non-empty sample of rationals
np_mean(xs) == RatDivInt(SumRats(xs), Len(xs))

np_max(xs) == xs[CHOOSE i \in 1..Len(xs) : \A j \in 1..Len(xs) : ~RatLess(xs[i], xs[j])]

np_min(xs) == xs[CHOOSE i \in 1..Len(xs) : \A j \in 1..Len(xs) : ~RatLess(xs[j], xs[i])]

\* np.std is the square root of this: the mean of the squared deviations
\* from the mean (divisor N).  The std-dev keys hold it squared.
np_std_squared(xs) ==
    LET m == np_mean(xs)
        d == [i \in 1..Len(xs) |-> RatSub(xs[i], m)]
    IN  np_mean([i \in 1..Len(xs) |-> RatMul(d[i], d[i])])

\* `np.mean(xs) if xs else 0`, and so for np.max and np.min
mean_or_zero(xs) == IF xs # <<>> THEN np_mean(xs) ELSE Zero

max_or_zero(xs) == IF xs # <<>> THEN np_max(xs) ELSE Zero

min_or_zero(xs) == IF xs # <<>> THEN np_min(xs) ELSE Zero

\* a plausible slip: the sample standard deviation, divisor N - 1
std_or_zero_sample(xs) ==
    IF Len(xs) > 1
    THEN LET m == np_mean(xs)
             d == [i \in 1..Len(xs) |-> RatSub(xs[i], m)]
         IN  RatDivInt(SumRats([i \in 1..Len(xs) |-> RatMul(d[i], d[i])]), Len(xs) - 1)
    ELSE Zero

\* `np.std(xs) if len(xs) > 1 else 0`
std_or_zero(xs) == IF Len(xs) > 1 THEN np_std_squared(xs) ELSE Zero

\* c / 1e8 for each c
to_btc(coins) == [i \in 1..Len(coins) |-> Rat(coins[i], 100000000)]

---------------------------------------------------------------------------
(* Both aggregators read the addresses of a transaction's inputs and     *)
(* outputs                                                                *)

\* input_tx.get('prev_out', {}).get('addr') for every input: raises when a
\* prev_out is None
InputsRaise(tx) ==
    LET inputs == Get(tx, "inputs", <<>>)
    IN  \E i \in 1..Len(inputs) : Get(inputs[i], "prev_out", EmptyDict) = NoneDict

InputAddrs(tx) ==
    LET inputs == Get(tx, "inputs", <<>>)
    IN  [i \in 1..Len(inputs) |->
            Get(Get(inputs[i], "prev_out", EmptyDict), "addr", NoneAddr)]

OutputAddrs(tx) ==
    LET out == Get(tx, "out", <<>>)
    IN  [i \in 1..Len(out) |-> Get(out[i], "addr", NoneAddr)]

RECURSIVE Flatten(_)
Flatten(lists) == IF lists = <<>> THEN <<>> ELSE Head(lists) \o Flatten(Tail(lists))

Elements(xs) == {xs[i] : i \in 1..Len(xs)}

---------------------------------------------------------------------------
(* calculate_in_params *)

\* a plausible slip: only the first sender of a transaction is kept
current_senders_first_only(tx) ==
    LET senders == SelectSeq(InputAddrs(tx), Truthy)
    IN  IF senders = <<>> THEN <<>> ELSE <<Head(senders)>>

current_senders(tx) == SelectSeq(InputAddrs(tx), Truthy)

\* a plausible slip: the change outputs are not left out
current_recipients_with_self(tx, target) == SelectSeq(OutputAddrs(tx), Truthy)

\* a plausible slip: an output without an address counts as a recipient
current_recipients_with_missing(tx, target) ==
    SelectSeq(OutputAddrs(tx), LAMBDA addr : addr # "" /\ addr # target)

current_recipients(tx, target) ==
    SelectSeq(OutputAddrs(tx), LAMBDA addr : Truthy(addr) /\ addr # target)

RECURSIVE SumValuesNot(_, _)
SumValuesNot(out, target) ==
    IF out = <<>> THEN 0
    ELSE (IF Get(Head(out), "addr", NoneAddr) # target
          THEN Get(Head(out), "value", 0) ELSE 0) + SumValuesNot(Tail(out), target)

\* a plausible slip: the change is counted as transferred
sent_amount_with_change(tx, target) == SumValuesNot(Get(tx, "out", <<>>), NoneAddr)

sent_amount(tx, target) == SumValuesNot(Get(tx, "out", <<>>), target)

\* a plausible slip: metric 20 divides by the occurrences, as metric 19 does
avg_coins_per_unique_receiver_by_total(transferred_coins, all_recipients) ==
    IF all_recipients # <<>>
    THEN RatDivInt(Rat(SumInts(transferred_coins), Len(all_recipients)), 100000000)
    ELSE Zero

avg_coins_per_receiver(transferred_coins, all_recipients) ==
    IF all_recipients # <<>>
    THEN RatDivInt(Rat(SumInts(transferred_coins), Len(all_recipients)), 100000000)
    ELSE Zero

avg_coins_per_unique_receiver(transferred_coins, all_recipients) ==
    LET unique_recipients == Elements(all_recipients)
    IN  IF unique_recipients # {}
        THEN RatDivInt(Rat(SumInts(transferred_coins), Cardinality(unique_recipients)),
                       100000000)
        ELSE Zero

\* a plausible slip: the early return holds the count alone
in_params_empty_count_only == ("1. No. of in. transactions" :> 0)

in_params_empty ==
    ("1. No. of in. transactions" :> 0)
    @@ ("2. Total recipient addresses (excluding self as change)" :> 0)
    @@ ("3. Number of unique recipient addresses" :> 0)
    @@ ("4. Average number of recipients per transaction" :> Zero)
    @@ ("5. Max number of recipients in a transaction" :> 0)
    @@ ("6. Min number of recipients in a transaction" :> 0)
    @@ ("7. Standard deviation of recipients counts" :> Zero)
    @@ ("8. Total sender addresses in in. transactions" :> 0)
    @@ ("9. Number of unique senders addresses" :> 0)
    @@ ("10. Average number of senders per transaction" :> Zero)
    @@ ("11. Max number of senders in a transaction" :> 0)
    @@ ("12. Min number of senders in a transaction" :> 0)
    @@ ("13. Standard deviation of sender counts" :> Zero)
    @@ ("14. Total coins transferred (excluding change)" :> Zero)
    @@ ("15. Average coins transferred per transaction" :> Zero)
    @@ ("16. Min coins transferred in one transaction" :> Zero)
    @@ ("17. Max coins transferred in one transaction" :> Zero)
    @@ ("18. Standard deviation of coins transferred in all transaction" :> Zero)
    @@ ("19. Avg. coins transferred per receiver" :> Zero)
    @@ ("20. Avg. coins transferred per unique receiver" :> Zero)

in_params_of(txs, target) ==
    LET n == Len(txs)
        sender_counts == [i \in 1..n |-> Len(current_senders(txs[i]))]
        all_senders == UNION {Elements(current_senders(txs[i])) : i \in 1..n}
        recipients_counts == [i \in 1..n |-> Len(current_recipients(txs[i], target))]
        all_recipients == Flatten([i \in 1..n |-> current_recipients(txs[i], target)])
        transferred_coins == [i \in 1..n |-> sent_amount(txs[i], target)]
        transferred_coins_btc == to_btc(transferred_coins)
        unique_recipients == Elements(all_recipients)
    IN  ("1. No. of in. transactions" :> n)
        @@ ("2. Total recipient addresses (excluding self as change)" :>
                Len(all_recipients))
        @@ ("3. Number of unique recipient addresses" :> Cardinality(unique_recipients))
        @@ ("4. Average number of recipients per transaction" :>
                mean_or_zero(ToRats(recipients_counts)))
        @@ ("5. Max number of recipients in a transaction" :>
                max_or_zero(ToRats(recipients_counts)).num)
        @@ ("6. Min number of recipients in a transaction" :>
                min_or_zero(ToRats(recipients_counts)).num)
        @@ ("7. Standard deviation of recipients counts" :>
                std_or_zero(ToRats(recipients_counts)))
        @@ ("8. Total sender addresses in in. transactions" :> Cardinality(all_senders))
        @@ ("9. Number of unique senders addresses" :> Cardinality(all_senders))
        @@ ("10. Average number of senders per transaction" :>
                mean_or_zero(ToRats(sender_counts)))
        @@ ("11. Max number of senders in a transaction" :>
                max_or_zero(ToRats(sender_counts)).num)
        @@ ("12. Min number of senders in a transaction" :>
                min_or_zero(ToRats(sender_counts)).num)
        @@ ("13. Standard deviation of sender counts" :>
                std_or_zero(ToRats(sender_counts)))
        @@ ("14. Total coins transferred (excluding change)" :>
                SumRats(transferred_coins_btc))
        @@ ("15. Average coins transferred per transaction" :>
                mean_or_zero(transferred_coins_btc))
        @@ ("16. Min coins transferred in one transaction" :>
                min_or_zero(transferred_coins_btc))
        @@ ("17. Max coins transferred in one transaction" :>
                max_or_zero(transferred_coins_btc))
        @@ ("18. Standard deviation of coins transferred in all transaction" :>
                std_or_zero(transferred_coins_btc))
        @@ ("19. Avg. coins transferred per receiver" :>
                avg_coins_per_receiver(transferred_coins, all_recipients))
        @@ ("20. Avg. coins transferred per unique receiver" :>
                avg_coins_per_unique_receiver(transferred_coins, all_recipients))

calculate_in_params(txs, target) ==
    IF txs = <<>> THEN [raised |-> FALSE, params |-> in_params_empty]
    ELSE IF \E i \in 1..Len(txs) : InputsRaise(txs[i]) THEN Raised
    ELSE [raised |-> FALSE, params |-> in_params_of(txs, target)]

---------------------------------------------------------------------------
(* calculate_out_params *)

\* a plausible slip: the target's own inputs are not left out
current_senders_out_with_self(tx, target) == SelectSeq(InputAddrs(tx), Truthy)

current_senders_out(tx, target) ==
    SelectSeq(InputAddrs(tx), LAMBDA addr : Truthy(addr) /\ addr # target)

current_receivers(tx) == SelectSeq(OutputAddrs(tx), Truthy)

RECURSIVE SumValuesTo(_, _)
SumValuesTo(out, target) ==
    IF out = <<>> THEN 0
    ELSE (IF Get(Head(out), "addr", NoneAddr) = target
          THEN Get(Head(out), "value", 0) ELSE 0) + SumValuesTo(Tail(out), target)

amount_received(tx, target) == SumValuesTo(Get(tx, "out", <<>>), target)

\* a plausible slip: the average is taken per transaction, not per sender
avg_coins_per_sender_by_tx(received_coins, all_senders) ==
    IF all_senders # {}
    THEN RatDivInt(Rat(SumInts(received_coins), Len(received_coins)), 100000000)
    ELSE Zero

avg_coins_per_sender(received_coins, all_senders) ==
    IF all_senders # {}
    THEN RatDivInt(Rat(SumInts(received_coins), Cardinality(all_senders)), 100000000)
    ELSE Zero

out_params_empty ==
    ("21. Number of out. transactions" :> 0)
    @@ ("22. Total senders addresses (excluding self as change)" :> 0)
    @@ ("23. Number of unique sender addresses" :> 0)
    @@ ("24. Average number of senders per transaction" :> Zero)
    @@ ("25. Max number of senders in a transaction" :> 0)
    @@ ("26. Min number of senders in a transaction" :> 0)
    @@ ("27. Variation (std. dev.) in senders count" :> Zero)
    @@ ("28. Total receivers addresses in out. transactions" :> 0)
    @@ ("29. Number of unique receivers addresses" :> 0)
    @@ ("30. Average number of receivers per transaction" :> Zero)
    @@ ("31. Max number of receivers in a transaction" :> 0)
    @@ ("32. Min number of receivers in a transaction" :> 0)
    @@ ("33. Variation in receivers count" :> Zero)
    @@ ("34. Total coins received (excluding change)" :> Zero)
    @@ ("35. Average coins received per transaction" :> Zero)
    @@ ("36. Min coins received in one transaction" :> Zero)
    @@ ("37. Max coins received in one transaction" :> Zero)
    @@ ("38. Variation (i.e., S.D) in coins received in all transaction" :> Zero)
    @@ ("39. Avg. coins per sender" :> Zero)

out_params_of(txs, target) ==
    LET n == Len(txs)
        senders_counts == [i \in 1..n |-> Len(current_senders_out(txs[i], target))]
        all_senders == UNION {Elements(current_senders_out(txs[i], target)) : i \in 1..n}
        receivers_counts == [i \in 1..n |-> Len(current_receivers(txs[i]))]
        all_receivers == Flatten([i \in 1..n |-> current_receivers(txs[i])])
        received_coins == [i \in 1..n |-> amount_received(txs[i], target)]
        received_coins_btc == to_btc(received_coins)
    IN  ("21. Number of out. transactions" :> n)
        @@ ("22. Total senders addresses (excluding self as change)" :>
                Cardinality(all_senders))
        @@ ("23. Number of unique sender addresses" :> Cardinality(all_senders))
        @@ ("24. Average number of senders per transaction" :>
                mean_or_zero(ToRats(senders_counts)))
        @@ ("25. Max number of senders in a transaction" :>
                max_or_zero(ToRats(senders_counts)).num)
        @@ ("26. Min number of senders in a transaction" :>
                min_or_zero(ToRats(senders_counts)).num)
        @@ ("27. Variation (std. dev.) in senders count" :>
                std_or_zero(ToRats(senders_counts)))
        @@ ("28. Total receivers addresses in out. transactions" :> Len(all_receivers))
        @@ ("29. Number of unique receivers addresses" :>
                Cardinality(Elements(all_receivers)))
        @@ ("30. Average number of receivers per transaction" :>
                mean_or_zero(ToRats(receivers_counts)))
        @@ ("31. Max number of receivers in a transaction" :>
                max_or_zero(ToRats(receivers_counts)).num)
        @@ ("32. Min number of receivers in a transaction" :>
                min_or_zero(ToRats(receivers_counts)).num)
        @@ ("33. Variation in receivers count" :> std_or_zero(ToRats(receivers_counts)))
        @@ ("34. Total coins received (excluding change)" :> SumRats(received_coins_btc))
        @@ ("35. Average coins received per transaction" :>
                mean_or_zero(received_coins_btc))
        @@ ("36. Min coins received in one transaction" :> min_or_zero(received_coins_btc))
        @@ ("37. Max coins received in one transaction" :> max_or_zero(received_coins_btc))
        @@ ("38. Variation (i.e., S.D) in coins received in all transaction" :>
                std_or_zero(received_coins_btc))
        @@ ("39. Avg. coins per sender" :> avg_coins_per_sender(received_coins, all_senders))

calculate_out_params(txs, target) ==
    IF txs = <<>> THEN [raised |-> FALSE, params |-> out_params_empty]
    ELSE IF \E i \in 1..Len(txs) : InputsRaise(txs[i]) THEN Raised
    ELSE [raised |-> FALSE, params |-> out_params_of(txs, target)]

---------------------------------------------------------------------------
(* The run for one address *)

Init ==
    /\ transactions \in TxLists(MaxSize) \cup Examples
    /\ target_address \in Targets
    /\ pc = "classify"
    /\ exc = "none"
    /\ in_txs = <<>>
    /\ out_txs = <<>>
    /\ in_params = <<>>
    /\ out_params = <<>>
    /\ addresses = <<target_address>>
    /\ responses = <<>>
    /\ addr_index = 1
    /\ address_data = EmptyDict
    /\ results_list = <<>>
    /\ retries = 0
    /\ requests = 0
    /\ sleeps = <<>>
    /\ fetch_calls = <<>>

Classify ==
    /\ pc = "classify"
    /\ LET r == process_transactions(transactions, target_address)
       IN  IF r.raised
           THEN /\ pc' = "except"
                /\ exc' = "process_transactions"
                /\ UNCHANGED <<in_txs, out_txs>>
           ELSE /\ pc' = "calc_in"
                /\ in_txs' = r.in_txs
                /\ out_txs' = r.out_txs
                /\ UNCHANGED exc
    /\ UNCHANGED <<transactions, target_address, in_params, out_params, loop_vars, fetch_vars>>

\* in_params = calculate_in_params(in_txs, address); an exception leaves the
\* try block of analyze_addresses
CalcIn ==
    /\ pc = "calc_in"
    /\ LET r == calculate_in_params(in_txs, target_address)
       IN  IF r.raised
           THEN /\ pc' = "except"
                /\ exc' = "calculate_in_params"
                /\ UNCHANGED in_params
           ELSE /\ pc' = "calc_out"
                /\ in_params' = r.params
                /\ UNCHANGED exc
    /\ UNCHANGED <<transactions, target_address, in_txs, out_txs, out_params, loop_vars,
                   fetch_vars>>

CalcOut ==
    /\ pc = "calc_out"
    /\ LET r == calculate_out_params(out_txs, target_address)
       IN  IF r.raised
           THEN /\ pc' = "except"
                /\ exc' = "calculate_out_params"
                /\ UNCHANGED out_params
           ELSE /\ pc' = "done"
                /\ out_params' = r.params
                /\ UNCHANGED exc
    /\ UNCHANGED <<transactions, target_address, in_txs, out_txs, in_params, loop_vars,
                   fetch_vars>>

Next == Classify \/ CalcIn \/ CalcOut

Spec == Init /\ [][Next]_vars

---------------------------------------------------------------------------
(* analyze_addresses: the loop over the address list *)

MaxAddresses == 3

AddressLists == UNION {[1..n -> {"A", "B"}] : n \in 0..MaxAddresses}

\* JSON bodies of a 200 response: an empty object; the balances and one
\* transaction from A paying B with change; a transaction with a null
\* prev_out after an input of A; a null transaction list
Bodies ==
    {EmptyDict,
     [txs |-> ExampleChange, final_balance |-> 30000000,
      total_received |-> 80000000, total_sent |-> 50000000],
     [txs |-> <<[inputs |-> <<[prev_out |-> [addr |-> "A"]], [prev_out |-> NoneDict]>>,
                 out |-> <<[addr |-> "B", value |-> 50000000]>>]>>,
      final_balance |-> 0],
     [txs |-> NoneList]}

\* what fetch_address_data meets for one address: status 429 at every
\* attempt, so no data within its retries, or a 200 response with a body
Responses == {[status |-> 429]} \cup {[status |-> 200, body |-> b] : b \in Bodies}

\* a plausible slip: a failed fetch returns empty data instead of None
fetch_address_data_empty_on_failure(response) ==
    IF response.status # 200
    THEN [raised |-> FALSE, txs |-> <<>>, address_data |-> EmptyDict]
    ELSE LET data == response.body
             txs == Get(data, "txs", <<>>)
         IN  IF txs = NoneList THEN Raised
             ELSE [raised |-> FALSE, txs |-> txs, address_data |-> data]

\* (None, None) without a 200 response; else (txs, address_data), len(txs)
\* raising TypeError when the body holds a null list
fetch_address_data(response) ==
    IF response.status # 200
    THEN [raised |-> FALSE, txs |-> NoneList, address_data |-> NoneDict]
    ELSE LET data == response.body
             txs == Get(data, "txs", <<>>)
         IN  IF txs = NoneList THEN Raised
             ELSE [raised |-> FALSE, txs |-> txs, address_data |-> data]

\* A dict whose order matters is the list of its <<key, value>> items in
\* insertion order.  A dict display evaluates its items from left to
\* right: a key keeps the place of its first occurrence and takes the
\* value of its last.
DictOf(items) ==
    LET n == Len(items)
        firsts == SelectSeq([i \in 1..n |-> i],
                            LAMBDA i : \A j \in 1..(i - 1) : items[j][1] # items[i][1])
        last(key) == CHOOSE i \in 1..n :
                         /\ items[i][1] = key
                         /\ \A j \in (i + 1)..n : items[j][1] # key
    IN  [k \in 1..Len(firsts) |->
            <<items[firsts[k]][1], items[last(items[firsts[k]][1])][2]>>]

DictKeys(d) == [i \in 1..Len(d) |-> d[i][1]]

\* the keys of the two metric dicts in the order of their literals
in_params_keys ==
    <<"1. No. of in. transactions",
      "2. Total recipient addresses (excluding self as change)",
      "3. Number of unique recipient addresses",
      "4. Average number of recipients per transaction",
      "5. Max number of recipients in a transaction",
      "6. Min number of recipients in a transaction",
      "7. Standard deviation of recipients counts",
      "8. Total sender addresses in in. transactions",
      "9. Number of unique senders addresses",
      "10. Average number of senders per transaction",
      "11. Max number of senders in a transaction",
      "12. Min number of senders in a transaction",
      "13. Standard deviation of sender counts",
      "14. Total coins transferred (excluding change)",
      "15. Average coins transferred per transaction",
      "16. Min coins transferred in one transaction",
      "17. Max coins transferred in one transaction",
      "18. Standard deviation of coins transferred in all transaction",
      "19. Avg. coins transferred per receiver",
      "20. Avg. coins transferred per unique receiver">>

out_params_keys ==
    <<"21. Number of out. transactions",
      "22. Total senders addresses (excluding self as change)",
      "23. Number of unique sender addresses",
      "24. Average number of senders per transaction",
      "25. Max number of senders in a transaction",
      "26. Min number of senders in a transaction",
      "27. Variation (std. dev.) in senders count",
      "28. Total receivers addresses in out. transactions",
      "29. Number of unique receivers addresses",
      "30. Average number of receivers per transaction",
      "31. Max number of receivers in a transaction",
      "32. Min number of receivers in a transaction",
      "33. Variation in receivers count",
      "34. Total coins received (excluding change)",
      "35. Average coins received per transaction",
      "36. Min coins received in one transaction",
      "37. Max coins received in one transaction",
      "38. Variation (i.e., S.D) in coins received in all transaction",
      "39. Avg. coins per sender">>

DictItems(params, keys) == [i \in 1..Len(keys) |-> <<keys[i], params[keys[i]]>>]

balance_fields(data) ==
    <<<<"Current Balance (BTC)", Rat(Get(data, "final_balance", 0), 100000000)>>,
      <<"Total Received (BTC)", Rat(Get(data, "total_received", 0), 100000000)>>,
      <<"Total Sent (BTC)", Rat(Get(data, "total_sent", 0), 100000000)>>>>

\* a plausible slip: the record holds the address and the metrics only
combined_params_without_balances(address, data, inp, outp) ==
    DictOf(
        <<<<"Bitcoin Address", address>>>>
            \o DictItems(inp, in_params_keys) \o DictItems(outp, out_params_keys))

\* {'Bitcoin Address': ..., three balances, **in_params, **out_params}
combined_params(address, data, inp, outp) ==
    DictOf(
        <<<<"Bitcoin Address", address>>>> \o balance_fields(data)
            \o DictItems(inp, in_params_keys) \o DictItems(outp, out_params_keys))

\* plausible slips: the record is put in front; a record is not added when
\* the table already has one for the address
append_record_front(results, record) == <<record>> \o results

append_record_dedup(results, record) ==
    IF \E k \in 1..Len(results) : results[k][1] = record[1] THEN results
    ELSE Append(results, record)

append_record(results, record) == Append(results, record)

\* BLOCKCHAIN_CONFIG: seconds before a request, seconds between two
\* addresses, and the number of attempts for one address
base_delay == 1

inter_address_delay == 3

max_retries == 10

\* a plausible slip: the delay between addresses starts at the third one
inter_address_sleep_from_third(i, slept) ==
    IF i > 2 THEN Append(slept, inter_address_delay) ELSE slept

\* if i > 1: time.sleep(BLOCKCHAIN_CONFIG['inter_address_delay'])
inter_address_sleep(i, slept) ==
    IF i > 1 THEN Append(slept, inter_address_delay) ELSE slept

InitAnalyze ==
    /\ addresses \in AddressLists
    /\ responses \in [1..Len(addresses) -> Responses]
    /\ addr_index = 0
    /\ results_list = <<>>
    /\ pc = "for"
    /\ exc = "none"
    /\ target_address = NoneAddr
    /\ transactions = <<>>
    /\ address_data = EmptyDict
    /\ in_txs = <<>>
    /\ out_txs = <<>>
    /\ in_params = <<>>
    /\ out_params = <<>>
    /\ retries = 0
    /\ requests = 0
    /\ sleeps = <<>>
    /\ fetch_calls = <<>>

\* for i, address in enumerate(addresses, 1)
ForLoop ==
    /\ pc = "for"
    /\ IF addr_index < Len(addresses)
       THEN /\ addr_index' = addr_index + 1
            /\ target_address' = addresses[addr_index + 1]
            /\ sleeps' = inter_address_sleep(addr_index + 1, sleeps)
            /\ pc' = "fetch"
       ELSE /\ pc' = "return"
            /\ UNCHANGED <<addr_index, target_address, sleeps>>
    /\ UNCHANGED <<transactions, exc, in_txs, out_txs, in_params, out_params,
                   addresses, responses, address_data, results_list,
                   retries, requests, fetch_calls>>

\* a plausible slip: a failed fetch ends the loop
after_fetch_break(txs) == IF txs = NoneList THEN "return" ELSE "classify"

\* if txs is None: continue
after_fetch(txs) == IF txs = NoneList THEN "for" ELSE "classify"

\* txs, address_data = fetch_address_data(address); if txs is None: continue
\* (the call as one step: what its retry loop ends in is responses[i])
Fetch ==
    /\ pc = "fetch"
    /\ fetch_calls' = Append(fetch_calls, target_address)
    /\ LET r == fetch_address_data(responses[addr_index])
       IN  IF r.raised
           THEN /\ pc' = "except"
                /\ exc' = "fetch_address_data"
                /\ UNCHANGED <<transactions, address_data>>
           ELSE /\ transactions' = r.txs
                /\ address_data' = r.address_data
                /\ pc' = after_fetch(r.txs)
                /\ UNCHANGED exc
    /\ UNCHANGED <<target_address, in_txs, out_txs, in_params, out_params,
                   addresses, responses, addr_index, results_list,
                   retries, requests, sleeps>>

\* results_list.append(combined_params)
Combine ==
    /\ pc = "done"
    /\ results_list' =
           append_record(results_list,
               combined_params(target_address, address_data, in_params, out_params))
    /\ pc' = "for"
    /\ UNCHANGED <<transactions, target_address, exc, in_txs, out_txs, in_params,
                   out_params, addresses, responses, addr_index, address_data,
                   fetch_vars>>

\* plausible slips: the handler leaves the loop; the handler raises again
ExceptBreak ==
    /\ pc = "except"
    /\ exc' = "none"
    /\ pc' = "return"
    /\ UNCHANGED <<transactions, target_address, in_txs, out_txs, in_params,
                   out_params, loop_vars, fetch_vars>>

ExceptReraise ==
    /\ pc = "except"
    /\ pc' = "uncaught"
    /\ UNCHANGED <<transactions, target_address, exc, in_txs, out_txs, in_params,
                   out_params, loop_vars, fetch_vars>>

\* except Exception as e: ...; continue
Except ==
    /\ pc = "except"
    /\ exc' = "none"
    /\ pc' = "for"
    /\ UNCHANGED <<transactions, target_address, in_txs, out_txs, in_params,
                   out_params, loop_vars, fetch_vars>>

\* return pd.DataFrame(results_list): the table is the list of records
Return ==
    /\ pc = "return"
    /\ pc' = "returned"
    /\ UNCHANGED <<transactions, target_address, exc, in_txs, out_txs, in_params,
                   out_params, loop_vars, fetch_vars>>

NextAnalyze ==
    ForLoop \/ Fetch \/ Classify \/ CalcIn \/ CalcOut \/ Combine \/ Except \/ Return

SpecAnalyze == InitAnalyze /\ [][NextAnalyze]_vars

\* where control can be in analyze_addresses
AnalyzePositions ==
    {"for", "fetch", "classify", "calc_in", "calc_out", "done", "except", "return",
     "returned"}

\* control moves on.  Every step of NextAnalyze moves pc and nothing else
\* does, and each position before "returned" has a step whose only guard
\* is the position, so this is a step of NextAnalyze and it is possible
\* exactly when one is.
Advance == pc # "returned" /\ pc' \in AnalyzePositions /\ pc' # pc

\* the interpreter runs the statement control is at: control does not stay
\* for ever before the return
SpecAnalyzeFair == SpecAnalyze /\ WF_pc(Advance)

---------------------------------------------------------------------------
(* fetch_address_data: the retry loop, one step for each sleep before a   *)
(* request and one for each request with what comes of it.  Here           *)
(* responses collects what each call ended in, as it is given in advance   *)
(* in SpecAnalyze: the 200 response received, or status 429 for no data    *)
(* within the retries.                                                     *)

\* what requests.get meets: a response with status 200, 429 or another
\* status, or a RequestException (no connection, timeout)
HttpResponses == Responses \cup {[status |-> 500]}

HttpOutcomes ==
    {[raised |-> TRUE]} \cup {[raised |-> FALSE, response |-> r] : r \in HttpResponses}

\* a plausible slip: one attempt too many
retries_left_inclusive(n) == n <= max_retries

\* while retries < BLOCKCHAIN_CONFIG['max_retries']
retries_left(n) == n < max_retries

\* a plausible slip: the first attempt is made at once
retry_delay_none_at_first(n) == IF n > 0 THEN base_delay * (n + 1) ELSE 0

\* the sleep at the head of the try block
retry_delay(n) == IF n > 0 THEN base_delay * (n + 1) ELSE base_delay

\* a plausible slip: data.get('txs') without the default
returned_txs_without_default(data) == Get(data, "txs", NoneList)

\* transactions = address_data.get('txs', [])
returned_txs(data) == Get(data, "txs", <<>>)

\* the call: retries = 0, no request issued yet
FetchBegin ==
    /\ pc = "fetch"
    /\ retries' = 0
    /\ requests' = 0
    /\ fetch_calls' = Append(fetch_calls, target_address)
    /\ pc' = "while"
    /\ UNCHANGED <<transactions, target_address, exc, in_txs, out_txs, in_params,
                   out_params, loop_vars, sleeps>>

\* the loop is entered: time.sleep before the request
Attempt ==
    /\ pc = "while"
    /\ retries_left(retries)
    /\ sleeps' = Append(sleeps, retry_delay(retries))
    /\ pc' = "request"
    /\ UNCHANGED <<transactions, target_address, exc, in_txs, out_txs, in_params,
                   out_params, loop_vars, retries, requests, fetch_calls>>

\* requests.get and what follows it up to the next loop test, the return
\* or the exception; in the caller, `if txs is None: continue`
Request ==
    /\ pc = "request"
    /\ requests' = requests + 1
    /\ \E o \in HttpOutcomes :
           IF o.raised
           THEN /\ retries' = retries + 1
                /\ sleeps' = IF retries + 1 < max_retries THEN <<3 * (retries + 1)>>
                              ELSE <<>>
                /\ pc' = "while"
                /\ UNCHANGED <<transactions, address_data, exc, responses>>
           ELSE IF o.response.status = 200
           THEN LET data == o.response.body
                    txs == returned_txs(data)
                IN  /\ sleeps' = <<>>
                    /\ responses' = Append(responses, o.response)
                    /\ UNCHANGED retries
                    /\ IF txs = NoneList
                       THEN /\ pc' = "except"
                            /\ exc' = "fetch_address_data"
                            /\ UNCHANGED <<transactions, address_data>>
                       ELSE /\ transactions' = txs
                            /\ address_data' = data
                            /\ pc' = after_fetch(txs)
                            /\ UNCHANGED exc
           ELSE /\ retries' = retries + 1
                /\ sleeps' = <<>>
                /\ pc' = "while"
                /\ UNCHANGED <<transactions, address_data, exc, responses>>
    /\ UNCHANGED <<target_address, in_txs, out_txs, in_params, out_params,
                   addresses, addr_index, results_list, fetch_calls>>

\* the loop is left: return None, None; in the caller, `if txs is None:
\* continue`
GiveUp ==
    /\ pc = "while"
    /\ ~retries_left(retries)
    /\ transactions' = NoneList
    /\ address_data' = NoneDict
    /\ responses' = Append(responses, [status |-> 429])
    /\ pc' = after_fetch(NoneList)
    /\ UNCHANGED <<target_address, exc, in_txs, out_txs, in_params, out_params,
                   addresses, addr_index, results_list, fetch_vars>>

\* one call of fetch_address_data
InitFetch ==
    /\ target_address \in {"A", "B"}
    /\ addresses = <<target_address>>
    /\ responses = <<>>
    /\ addr_index = 1
    /\ results_list = <<>>
    /\ pc = "fetch"
    /\ exc = "none"
    /\ transactions = <<>>
    /\ address_data = EmptyDict
    /\ in_txs = <<>>
    /\ out_txs = <<>>
    /\ in_params = <<>>
    /\ out_params = <<>>
    /\ retries = 0
    /\ requests = 0
    /\ sleeps = <<>>
    /\ fetch_calls = <<>>

NextFetch == FetchBegin \/ Attempt \/ Request \/ GiveUp

\* the interpreter runs the next statement of the function whenever there
\* is one; requests.get ends within its timeout
SpecFetch == InitFetch /\ [][NextFetch]_vars /\ WF_vars(NextFetch)

\* analyze_addresses with the retry loop of each fetch unfolded
InitRun ==
    /\ addresses \in AddressLists
    /\ responses = <<>>
    /\ addr_index = 0
    /\ results_list = <<>>
    /\ pc = "for"
    /\ exc = "none"
    /\ target_address = NoneAddr
    /\ transactions = <<>>
    /\ address_data = EmptyDict
    /\ in_txs = <<>>
    /\ out_txs = <<>>
    /\ in_params = <<>>
    /\ out_params = <<>>
    /\ retries = 0
    /\ requests = 0
    /\ sleeps = <<>>
    /\ fetch_calls = <<>>

NextRun ==
    \/ ForLoop \/ FetchBegin \/ Attempt \/ Request \/ GiveUp
    \/ Classify \/ CalcIn \/ CalcOut \/ Combine \/ Except \/ Return

SpecRun == InitRun /\ [][NextRun]_vars

---------------------------------------------------------------------------
(* What the claims speak of, stated over the raw fields.  An address is   *)
(* present when the key holds a non-empty string: the code reads a        *)
(* missing key, null and "" alike as no address.                          *)

Classified ==
    pc \in {"calc_in", "calc_out", "done"}
        \/ (pc = "except" /\ exc # "process_transactions")

InDone == pc \in {"calc_out", "done"}

OutDone == pc = "done"

Inputs(tx) == Get(tx, "inputs", <<>>)

Outputs(tx) == Get(tx, "out", <<>>)

SendsFrom(tx, A) ==
    \E i \in 1..Len(Inputs(tx)) :
        LET po == Get(Inputs(tx)[i], "prev_out", EmptyDict)
        IN  po # NoneDict /\ "addr" \in DOMAIN po /\ po.addr = A

PaysTo(tx, A) ==
    \E j \in 1..Len(Outputs(tx)) :
        "addr" \in DOMAIN Outputs(tx)[j] /\ Outputs(tx)[j].addr = A

OutAddr(tx, j) ==
    IF "addr" \in DOMAIN Outputs(tx)[j] THEN Outputs(tx)[j].addr ELSE NoneAddr

InAddr(tx, i) ==
    LET po == Get(Inputs(tx)[i], "prev_out", EmptyDict)
    IN  IF "addr" \in DOMAIN po THEN po.addr ELSE NoneAddr

HasAddr(a) == a # NoneAddr /\ a # ""

RECURSIVE SumOfValues(_, _)
SumOfValues(tx, J) ==
    IF J = {} THEN 0
    ELSE LET j == CHOOSE k \in J : TRUE
             v == IF "value" \in DOMAIN Outputs(tx)[j] THEN Outputs(tx)[j].value ELSE 0
         IN  v + SumOfValues(tx, J \ {j})

RECURSIVE SumOver(_, _)
SumOver(f, I) ==
    IF I = {} THEN 0
    ELSE LET i == CHOOSE k \in I : TRUE IN f[i] + SumOver(f, I \ {i})

\* outputs of tx that name a recipient other than A; outputs not to A;
\* outputs to A; outputs and inputs that name an address
RecipientOutputs(tx, A) ==
    {j \in 1..Len(Outputs(tx)) : HasAddr(OutAddr(tx, j)) /\ OutAddr(tx, j) # A}

OutputsNotTo(tx, A) == {j \in 1..Len(Outputs(tx)) : OutAddr(tx, j) # A}

OutputsTo(tx, A) == {j \in 1..Len(Outputs(tx)) : OutAddr(tx, j) = A}

AddressedOutputs(tx) == {j \in 1..Len(Outputs(tx)) : HasAddr(OutAddr(tx, j))}

AddressedInputs(tx) == {i \in 1..Len(Inputs(tx)) : HasAddr(InAddr(tx, i))}

OtherSenderInputs(tx, A) == {i \in AddressedInputs(tx) : InAddr(tx, i) # A}

Satoshi == 100000000

M1 == in_params["1. No. of in. transactions"]
M2 == in_params["2. Total recipient addresses (excluding self as change)"]
M3 == in_params["3. Number of unique recipient addresses"]
M5 == in_params["5. Max number of recipients in a transaction"]
M6 == in_params["6. Min number of recipients in a transaction"]
M8 == in_params["8. Total sender addresses in in. transactions"]
M9 == in_params["9. Number of unique senders addresses"]
M14 == in_params["14. Total coins transferred (excluding change)"]
M19 == in_params["19. Avg. coins transferred per receiver"]
M20 == in_params["20. Avg. coins transferred per unique receiver"]
M21 == out_params["21. Number of out. transactions"]
M22 == out_params["22. Total senders addresses (excluding self as change)"]
M23 == out_params["23. Number of unique sender addresses"]
M28 == out_params["28. Total receivers addresses in out. transactions"]
M34 == out_params["34. Total coins received (excluding change)"]
M39 == out_params["39. Avg. coins per sender"]
M4 == in_params["4. Average number of recipients per transaction"]
M7 == in_params["7. Standard deviation of recipients counts"]
M10 == in_params["10. Average number of senders per transaction"]
M11 == in_params["11. Max number of senders in a transaction"]
M12 == in_params["12. Min number of senders in a transaction"]
M13 == in_params["13. Standard deviation of sender counts"]
M15 == in_params["15. Average coins transferred per transaction"]
M16 == in_params["16. Min coins transferred in one transaction"]
M17 == in_params["17. Max coins transferred in one transaction"]
M18 == in_params["18. Standard deviation of coins transferred in all transaction"]
M24 == out_params["24. Average number of senders per transaction"]
M25 == out_params["25. Max number of senders in a transaction"]
M26 == out_params["26. Min number of senders in a transaction"]
M27 == out_params["27. Variation (std. dev.) in senders count"]
M29 == out_params["29. Number of unique receivers addresses"]
M30 == out_params["30. Average number of receivers per transaction"]
M31 == out_params["31. Max number of receivers in a transaction"]
M32 == out_params["32. Min number of receivers in a transaction"]
M33 == out_params["33. Variation in receivers count"]
M35 == out_params["35. Average coins received per transaction"]
M36 == out_params["36. Min coins received in one transaction"]
M37 == out_params["37. Max coins received in one transaction"]
M38 == out_params["38. Variation (i.e., S.D) in coins received in all transaction"]

\* the keys whose values are counts (integers); the rest are floats
CountKeys ==
    {"1. No. of in. transactions",
     "2. Total recipient addresses (excluding self as change)",
     "3. Number of unique recipient addresses",
     "5. Max number of recipients in a transaction",
     "6. Min number of recipients in a transaction",
     "8. Total sender addresses in in. transactions",
     "9. Number of unique senders addresses",
     "11. Max number of senders in a transaction",
     "12. Min number of senders in a transaction",
     "21. Number of out. transactions",
     "22. Total senders addresses (excluding self as change)",
     "23. Number of unique sender addresses",
     "25. Max number of senders in a transaction",
     "26. Min number of senders in a transaction",
     "28. Total receivers addresses in out. transactions",
     "29. Number of unique receivers addresses",
     "31. Max number of receivers in a transaction",
     "32. Min number of receivers in a transaction"}

AllZero(params) ==
    \A k \in DOMAIN params :
        IF k \in CountKeys THEN params[k] = 0 ELSE params[k] = Zero

---------------------------------------------------------------------------
(* C1 *)

\* C1: when process_transactions returns, a transaction of the list is in
\* the sending list iff one of its inputs has prev_out.addr equal to the
\* target, and in the receiving list iff one of its outputs has addr equal
\* to the target; the lists hold nothing else.
C1_SoundAndComplete ==
    Classified =>
        /\ Elements(in_txs) = {tx \in Elements(transactions) : SendsFrom(tx, target_address)}
        /\ Elements(out_txs) = {tx \in Elements(transactions) : PaysTo(tx, target_address)}

\* three transactions: one only sending, one only receiving, one neither
C1_Witness ==
    /\ Classified
    /\ Len(transactions) = 3
    /\ Len(in_txs) = 1
    /\ Len(out_txs) = 1
    /\ in_txs # out_txs
    /\ in_txs[1] # transactions[1]

---------------------------------------------------------------------------
(* C2 *)

\* C2: process_transactions never raises, whatever fields are absent or
\* null.  (It does: an input whose prev_out is null makes the scan call
\* .get on None.)
C2_NeverRaises == ~(pc = "except" /\ exc = "process_transactions")

---------------------------------------------------------------------------
(* C3 *)

\* C3: each returned list is the input list filtered by its own test, in
\* input order: the sending list by the input test alone, the receiving
\* list by the output test alone, so that a transaction is in both, one or
\* neither and occurs in a list as often as it passes in the input list.
C3_OrderedIndependentFilter ==
    Classified =>
        /\ in_txs = SelectSeq(transactions, LAMBDA tx : SendsFrom(tx, target_address))
        /\ out_txs = SelectSeq(transactions, LAMBDA tx : PaysTo(tx, target_address))

\* two different sending transactions, the first of them also receiving
C3_Witness ==
    /\ Classified
    /\ Len(in_txs) = 2
    /\ in_txs[1] # in_txs[2]
    /\ out_txs = <<in_txs[1]>>

---------------------------------------------------------------------------
(* C4 *)

\* C4: classifying the returned sending list again, against the same
\* target, returns it as its sending list, and classifying the returned
\* receiving list again returns it as its receiving list.
C4_Idempotent ==
    Classified =>
        LET again_in == process_transactions(in_txs, target_address)
            again_out == process_transactions(out_txs, target_address)
        IN  /\ ~again_in.raised
            /\ again_in.in_txs = in_txs
            /\ ~again_out.raised
            /\ again_out.out_txs = out_txs

\* two different sending transactions, the second of them also receiving
C4_Witness ==
    /\ Classified
    /\ Len(in_txs) = 2
    /\ in_txs[1] # in_txs[2]
    /\ out_txs = <<in_txs[2]>>

---------------------------------------------------------------------------
(* C5 *)

\* C5: for every sending transaction the recipient count is the number of
\* outputs that name an address other than the target, and the transferred
\* amount is the sum of the values of the outputs whose address is not the
\* target; metric 2 is the sum of those counts, metrics 5 and 6 their
\* extremes, and metric 14 the sum of those amounts over 10^8.
C5_SelfExcludedOnSendingSide ==
    InDone =>
        LET n == Len(in_txs)
            count == [i \in 1..n |-> Cardinality(RecipientOutputs(in_txs[i], target_address))]
            amount == [i \in 1..n |->
                          SumOfValues(in_txs[i], OutputsNotTo(in_txs[i], target_address))]
        IN  /\ \A i \in 1..n :
                  /\ Len(current_recipients(in_txs[i], target_address)) = count[i]
                  /\ sent_amount(in_txs[i], target_address) = amount[i]
            /\ M2 = SumOver(count, 1..n)
            /\ \A i \in 1..n : M6 <= count[i] /\ count[i] <= M5
            /\ n > 0 => \E i \in 1..n : M5 = count[i]
            /\ n > 0 => \E i \in 1..n : M6 = count[i]
            /\ M14 = Rat(SumOver(amount, 1..n), Satoshi)

\* a sending transaction pays another address and returns change
C5_Witness ==
    /\ InDone
    /\ \E i \in 1..Len(in_txs) :
          /\ OutputsTo(in_txs[i], target_address) # {}
          /\ SumOfValues(in_txs[i], OutputsTo(in_txs[i], target_address)) > 0
          /\ RecipientOutputs(in_txs[i], target_address) # {}
    /\ M14 # Zero

---------------------------------------------------------------------------
(* C6 *)

\* C6: metric 19 is metric 14 (the sum of the transferred amounts) divided
\* by metric 2, the number of recipient occurrences, and metric 20 is it
\* divided by metric 3, the number of distinct recipients; each is 0 when
\* its divisor is 0.  Recipients [B, B, C] with 3.0 coins transferred give
\* 1.0 and 1.5.
C6_AveragesPerReceiver ==
    InDone =>
        /\ M3 = Cardinality(UNION {{OutAddr(in_txs[i], j) :
                                      j \in RecipientOutputs(in_txs[i], target_address)}
                                   : i \in 1..Len(in_txs)})
        /\ M19 = (IF M2 = 0 THEN Zero ELSE RatDivInt(M14, M2))
        /\ M20 = (IF M3 = 0 THEN Zero ELSE RatDivInt(M14, M3))
        /\ (transactions = ExampleXXY /\ target_address = "A") =>
               /\ M2 = 3
               /\ M3 = 2
               /\ M14 = Rat(3, 1)
               /\ M19 = Rat(1, 1)
               /\ M20 = Rat(3, 2)

C6_Witness ==
    /\ InDone
    /\ transactions = ExampleXXY
    /\ target_address = "A"
    /\ in_txs = ExampleXXY
    /\ M20 = Rat(3, 2)

---------------------------------------------------------------------------
(* C7 *)

---------------------------------------------------------------------------
(* C8 *)

\* C8: metric 34 leaves change out: an output that pays the target in a
\* transaction the target itself funded adds nothing to it.  (The code
\* adds every output that pays the target.)
C8_ChangeExcludedFromReceived ==
    OutDone =>
        LET n == Len(out_txs)
            from_others == [i \in 1..n |->
                IF SendsFrom(out_txs[i], target_address) THEN 0
                ELSE SumOfValues(out_txs[i], OutputsTo(out_txs[i], target_address))]
        IN  M34 = Rat(SumOver(from_others, 1..n), Satoshi)

---------------------------------------------------------------------------
(* C9 *)

\* C9: metric 39 is metric 34 (the sum of the received amounts) divided by
\* the number of distinct sender addresses other than the target, and 0
\* when there is none.  One transaction paying 1.2 coins to A from C gives
\* count 1, unique senders 1, total received 1.2 and metric 39 = 1.2.
C9_AveragePerSender ==
    OutDone =>
        LET senders == UNION {{InAddr(out_txs[i], k) :
                                 k \in OtherSenderInputs(out_txs[i], target_address)}
                              : i \in 1..Len(out_txs)}
        IN  /\ M39 = (IF senders = {} THEN Zero
                      ELSE RatDivInt(M34, Cardinality(senders)))
            /\ (transactions = ExampleReceive /\ target_address = "A") =>
                   /\ M21 = 1
                   /\ M23 = 1
                   /\ M34 = Rat(6, 5)
                   /\ M39 = Rat(6, 5)

C9_Witness ==
    /\ OutDone
    /\ transactions = ExampleReceive
    /\ target_address = "A"
    /\ out_txs = ExampleReceive
    /\ M39 = Rat(6, 5)

---------------------------------------------------------------------------
(* C10 *)

\* C10: metric 8 counts a sender address once for each of its occurrences:
\* for a single sending transaction it is the number of inputs that name
\* an address.  (The code takes the size of the set of sender addresses,
\* as for metric 9.)
C10_TotalSendersPerOccurrence ==
    (InDone /\ Len(in_txs) = 1) => M8 = Cardinality(AddressedInputs(in_txs[1]))

---------------------------------------------------------------------------
(* C11 *)

---------------------------------------------------------------------------
(* C12 *)

\* C12: the sending record has exactly 20 keys and the receiving record
\* exactly 19, the same keys whether the classified list is empty or not,
\* and for an empty list every value is 0, whatever the target address.
C12_EmptyRecordsAllZero ==
    /\ InDone =>
           /\ Cardinality(DOMAIN in_params) = 20
           /\ DOMAIN in_params = DOMAIN calculate_in_params(<<>>, target_address).params
           /\ in_txs = <<>> => AllZero(in_params)
    /\ OutDone =>
           /\ Cardinality(DOMAIN out_params) = 19
           /\ DOMAIN out_params = DOMAIN calculate_out_params(<<>>, target_address).params
           /\ out_txs = <<>> => AllZero(out_params)
    /\ \A A \in Targets :
           /\ ~calculate_in_params(<<>>, A).raised
           /\ AllZero(calculate_in_params(<<>>, A).params)
           /\ ~calculate_out_params(<<>>, A).raised
           /\ AllZero(calculate_out_params(<<>>, A).params)

\* no sending transaction and two receiving ones that pay the target:
\* the early return on one side, the full computation on the other
C12_Witness ==
    /\ OutDone
    /\ in_txs = <<>>
    /\ AllZero(in_params)
    /\ Len(out_txs) = 2
    /\ ~AllZero(out_params)

---------------------------------------------------------------------------
(* C14 *)

RatLeq(a, b) == a.num * b.den <= b.num * a.den

\* the population variance of a non-empty sample: the mean of the squares
\* less the square of the mean (the standard deviation is its root)
PopulationVariance(xs) ==
    LET N == Len(xs)
        mean == RatDivInt(SumRats(xs), N)
    IN  RatSub(RatDivInt(SumRats([i \in 1..N |-> RatMul(xs[i], xs[i])]), N),
               RatMul(mean, mean))

\* the policy for one sample and the four metrics computed from it
StatisticsPolicy(xs, mean, max, min, variance) ==
    LET N == Len(xs)
    IN  /\ N = 0 => mean = Zero /\ max = Zero /\ min = Zero
        /\ N < 2 => variance = Zero
        /\ N >= 2 => variance = PopulationVariance(xs)
        /\ N >= 1 =>
               /\ mean = RatDivInt(SumRats(xs), N)
               /\ RatLeq(min, mean) /\ RatLeq(mean, max)
               /\ \E i \in 1..N : xs[i] = min
               /\ \E i \in 1..N : xs[i] = max
               /\ \A i \in 1..N : RatLeq(min, xs[i]) /\ RatLeq(xs[i], max)

---------------------------------------------------------------------------
(* C15 *)

\* C15: a single transaction with the target A among its inputs, paying
\* 0.5 coin to B and 0.3 coin of change back to A, gives for target A:
\* count 1, total recipients 1, unique recipients 1, transferred = average
\* = min = max = 0.5, deviation 0, and metrics 19 and 20 both 0.5.
C15_EndToEndExample ==
    (/\ InDone
     /\ target_address = "A"
     /\ Len(transactions) = 1
     /\ SendsFrom(transactions[1], "A")
     /\ Outputs(transactions[1]) = Outputs(ExampleChange[1]))
        => /\ in_txs = transactions
           /\ M1 = 1
           /\ M2 = 1
           /\ M3 = 1
           /\ M14 = Rat(1, 2)
           /\ M15 = Rat(1, 2)
           /\ M16 = Rat(1, 2)
           /\ M17 = Rat(1, 2)
           /\ M18 = Zero
           /\ M19 = Rat(1, 2)
           /\ M20 = Rat(1, 2)

C15_Witness ==
    /\ InDone
    /\ target_address = "A"
    /\ transactions = ExampleChange
    /\ in_txs = ExampleChange
    /\ M14 = Rat(1, 2)

---------------------------------------------------------------------------
(* C20 *)

HasValue(tx, j) == "value" \in DOMAIN Outputs(tx)[j]

HasAddrKey(tx, j) == "addr" \in DOMAIN Outputs(tx)[j]

HasInputAddrKey(tx, i) ==
    /\ "prev_out" \in DOMAIN Inputs(tx)[i]
    /\ Inputs(tx)[i].prev_out # NoneDict
    /\ "addr" \in DOMAIN Inputs(tx)[i].prev_out

\* the sum of the value fields of the outputs J, all of which have one
RECURSIVE SumPresentValues(_, _)
SumPresentValues(tx, J) ==
    IF J = {} THEN 0
    ELSE LET j == CHOOSE k \in J : TRUE
         IN  Outputs(tx)[j].value + SumPresentValues(tx, J \ {j})

NoNullPrevOut(txs) ==
    \A i \in 1..Len(txs) : \A k \in 1..Len(Inputs(txs[i])) :
        Get(Inputs(txs[i])[k], "prev_out", EmptyDict) # NoneDict

---------------------------------------------------------------------------
(* What the claims about analyze_addresses speak of, stated over the      *)
(* address list and the responses.                                        *)

\* the positions of the address list dealt with so far
Processed ==
    IF pc \in {"for", "return", "returned"} THEN addr_index ELSE addr_index - 1

FetchFailed(j) == responses[j].status # 200

\* the fetch returns data and no transaction of it has a null prev_out
Succeeds(j) ==
    /\ responses[j].status = 200
    /\ Get(responses[j].body, "txs", <<>>) # NoneList
    /\ NoNullPrevOut(Get(responses[j].body, "txs", <<>>))

RaisesException(j) == ~FetchFailed(j) /\ ~Succeeds(j)

\* the record of an address that succeeds
RecordOf(j) ==
    LET address == addresses[j]
        data == responses[j].body
        lists == process_transactions(Get(data, "txs", <<>>), address)
    IN  combined_params(address, data,
            calculate_in_params(lists.in_txs, address).params,
            calculate_out_params(lists.out_txs, address).params)

RECURSIVE ExpectedTable(_)
ExpectedTable(n) ==
    IF n = 0 THEN <<>>
    ELSE IF Succeeds(n) THEN Append(ExpectedTable(n - 1), RecordOf(n))
    ELSE ExpectedTable(n - 1)

Field(record, key) == record[CHOOSE i \in 1..Len(record) : record[i][1] = key][2]

AddressKeys ==
    <<"Bitcoin Address", "Current Balance (BTC)", "Total Received (BTC)",
      "Total Sent (BTC)">>

\* what every appended record has, whatever the number of its fields: the
\* address and the balances first, then metrics 1-20 and 21-39 in order,
\* no key twice, each metric holding the value its aggregator returned
RecordLayout(record, N) ==
    /\ Len(record) = N
    /\ Cardinality(Elements(DictKeys(record))) = N
    /\ DictKeys(record) = AddressKeys \o in_params_keys \o out_params_keys
    /\ Elements(in_params_keys) = DOMAIN in_params_empty
    /\ Elements(out_params_keys) = DOMAIN out_params_empty
    /\ Elements(AddressKeys) \cap (DOMAIN in_params_empty \cup DOMAIN out_params_empty) = {}
    /\ DOMAIN in_params_empty \cap DOMAIN out_params_empty = {}

---------------------------------------------------------------------------
(* C13 *)

\* the record appended last, once the step that appended it is taken
JustAppended == pc = "for" /\ addr_index > 0 /\ Succeeds(addr_index)

\* C13 (as the code has it): every record analyze_addresses appends has
\* exactly 43 fields in fixed order -- the address, the 3 balance fields,
\* metrics 1-20, metrics 21-39 --, the three key sets being disjoint so
\* that merging overwrites nothing: each metric holds the value its
\* aggregator returned, and all 39 metric keys are there whether or not a
\* classified list is empty.
C13_RecordHas43Fields ==
    JustAppended =>
        LET record == results_list[Len(results_list)]
        IN  /\ RecordLayout(record, 43)
            /\ record[1][2] = target_address
            /\ \A i \in 1..20 : record[4 + i][2] = in_params[in_params_keys[i]]
            /\ \A i \in 1..19 : record[24 + i][2] = out_params[out_params_keys[i]]

\* C13 as stated: every appended record has exactly 42 fields.
C13_RecordHas42Fields ==
    JustAppended => RecordLayout(results_list[Len(results_list)], 42)

\* a record with both classified lists empty and a record with both
\* non-empty have been appended
C13_Witness ==
    /\ Len(results_list) >= 2
    /\ \E k \in 1..Len(results_list) :
          /\ Field(results_list[k], "1. No. of in. transactions") = 0
          /\ Field(results_list[k], "21. Number of out. transactions") = 0
    /\ \E k \in 1..Len(results_list) :
          /\ Field(results_list[k], "1. No. of in. transactions") = 1
          /\ Field(results_list[k], "21. Number of out. transactions") = 1

---------------------------------------------------------------------------
(* C16 *)

\* C16: the step that deals with an address whose fetch returns no data
\* leaves the table as it is and goes on to the next address; the loop
\* ends only after the last address, with no more records than addresses
\* that fetched data; and a list of one failing and one
\* succeeding address gives a table of exactly one record, that of the
\* succeeding address.
C16_FailedFetchSkipped ==
    /\ [][(pc = "fetch" /\ FetchFailed(addr_index)) =>
              (results_list' = results_list /\ pc' = "for" /\ exc' = exc)]_vars
    /\ [](pc = "returned" =>
              /\ addr_index = Len(addresses)
              /\ Len(results_list) <=
                     Cardinality({j \in 1..Len(addresses) : ~FetchFailed(j)})
              /\ (Len(addresses) = 2 /\ \E j \in 1..2 :
                                            FetchFailed(j) /\ Succeeds(3 - j)) =>
                     \E j \in 1..2 : Succeeds(j) /\ results_list = <<RecordOf(j)>>)

\* the first address failed to fetch and the second has its record
C16_Witness ==
    /\ pc = "returned"
    /\ Len(addresses) = 2
    /\ FetchFailed(1)
    /\ Succeeds(2)
    /\ Len(results_list) = 1
    /\ Field(results_list[1], "Bitcoin Address") = addresses[2]

---------------------------------------------------------------------------
(* C17 *)

\* C17: while an address is being fetched, classified or aggregated the
\* table holds what it held when the address was taken up; the handler of
\* an exception leaves the table as it is and goes on to the next address;
\* every record of the table is complete; and at the end every address
\* that raised nothing and fetched data has its record.
C17_ExceptionCaughtPerAddress ==
    /\ [][(pc = "except") => (results_list' = results_list /\ pc' = "for")]_vars
    /\ [][(pc \in {"fetch", "classify", "calc_in", "calc_out"}) =>
              results_list' = results_list]_vars
    /\ [](/\ \A k \in 1..Len(results_list) : Len(results_list[k]) = 43
          /\ pc = "except" =>
                 /\ RaisesException(addr_index)
                 /\ Len(results_list) =
                        Cardinality({j \in 1..(addr_index - 1) : Succeeds(j)})
          /\ pc = "returned" =>
                 Len(results_list) =
                     Cardinality({j \in 1..Len(addresses) : Succeeds(j)}))

\* an address that raises between two addresses that succeed
C17_Witness ==
    /\ pc = "returned"
    /\ Len(addresses) = 3
    /\ Succeeds(1)
    /\ RaisesException(2)
    /\ Succeeds(3)
    /\ Len(results_list) = 2

---------------------------------------------------------------------------
(* C18 *)

\* C18: the position in the address list moves forward one address at a
\* time; a step leaves the table as it is or appends one record to it, and
\* only the last step for an address appends; and between addresses and at
\* the return -- hence at every point -- the table is the list, in input
\* order, of the records of the addresses dealt with so far that
\* succeeded, an address listed twice having a record for each time it
\* succeeded.
C18_OrderedAppendOnlyTable ==
    /\ [][/\ addr_index' \in {addr_index, addr_index + 1}
          /\ \/ results_list' = results_list
             \/ /\ Len(results_list') = Len(results_list) + 1
                /\ SubSeq(results_list', 1, Len(results_list)) = results_list]_vars
    /\ [][pc # "done" => results_list' = results_list]_vars
    /\ [](/\ pc \in {"for", "returned"} => results_list = ExpectedTable(Processed)
          /\ pc \notin {"for", "return", "returned"} =>
                 target_address = addresses[addr_index])

\* the same address first and last, with different data, and another
\* between them: three records in input order
C18_Witness ==
    /\ pc = "returned"
    /\ Len(addresses) = 3
    /\ addresses[1] = addresses[3]
    /\ addresses[1] # addresses[2]
    /\ responses[1] # responses[3]
    /\ Len(results_list) = 3
    /\ Field(results_list[1], "Bitcoin Address") = addresses[1]
    /\ Field(results_list[2], "Bitcoin Address") = addresses[2]
    /\ results_list[1] # results_list[3]

---------------------------------------------------------------------------
(* C19 *)

\* C19: no exception leaves analyze_addresses -- the run is always at one
\* of the positions of the loop, at the return or past it, an exception
\* being at the handler of the loop -- and when no address produced a
\* record (an empty list, or each address failing to fetch or raising) the
\* table returned is empty.
C19_EmptyTableNotException ==
    /\ pc # "uncaught"
    /\ pc \in {"for", "fetch", "classify", "calc_in", "calc_out", "done", "except",
               "return", "returned"}
    /\ pc = "except" => exc \in {"fetch_address_data", "process_transactions",
                                 "calculate_in_params", "calculate_out_params"}
    /\ pc \in {"fetch", "classify", "calc_in", "calc_out", "done", "except"} =>
           addr_index \in 1..Len(addresses)
    /\ (pc = "returned" /\ \A j \in 1..Len(addresses) : ~Succeeds(j)) =>
           results_list = <<>>

\* three addresses, the first failing to fetch, the others raising in
\* different places, and an empty table returned
C19_Witness ==
    /\ pc = "returned"
    /\ Len(addresses) = 3
    /\ FetchFailed(1)
    /\ RaisesException(2)
    /\ RaisesException(3)
    /\ responses[2] # responses[3]
    /\ results_list = <<>>

---------------------------------------------------------------------------
(* C25 *)

\* C25: for a non-empty target address every transaction of the sending
\* list has at least one sender and every transaction of the receiving
\* list at least one receiver; so when metric 1 > 0 metrics 9 and 12 are
\* at least 1, and when metric 21 > 0 metrics 29 and 32 are at least 1 and
\* metric 28 is at least metric 21.
C25_CountsAtLeastOne ==
    target_address # "" =>
        /\ InDone =>
               /\ \A i \in 1..Len(in_txs) : Len(current_senders(in_txs[i])) >= 1
               /\ M1 > 0 => (M9 >= 1 /\ M12 >= 1)
        /\ OutDone =>
               /\ \A i \in 1..Len(out_txs) : Len(current_receivers(out_txs[i])) >= 1
               /\ M21 > 0 => (M29 >= 1 /\ M32 >= 1 /\ M28 >= M21)

\* one sending and two receiving transactions have been aggregated
C25_Witness ==
    /\ OutDone
    /\ target_address # ""
    /\ M1 = 1
    /\ M21 = 2
    /\ M12 = 1
    /\ M32 = 1

---------------------------------------------------------------------------
(* C21 *)

\* the record of position j computed from its address and its fetched
\* data alone, the two lists being the fetched list filtered by each test
RecordAlone(j) ==
    LET address == addresses[j]
        data == responses[j].body
        txs == Get(data, "txs", <<>>)
        sending == SelectSeq(txs, LAMBDA tx : SendsFrom(tx, address))
        receiving == SelectSeq(txs, LAMBDA tx : PaysTo(tx, address))
    IN  combined_params(address, data,
            calculate_in_params(sending, address).params,
            calculate_out_params(receiving, address).params)

\* the place in the table of the record of position j, which succeeded
TableIndex(j) == Cardinality({k \in 1..j : Succeeds(k)})

\* C21: classifying, aggregating and appending leave the fetched
\* transactions and address data as they were fetched; the record appended
\* for an address is the one computed from that address and its fetched
\* data alone; and two positions of the list with the same address and the
\* same fetched data have equal records, whatever was processed before
\* each.
C21_RecordDependsOnOwnDataOnly ==
    /\ [][(pc \in {"classify", "calc_in", "calc_out", "done", "except"}) =>
              (transactions' = transactions /\ address_data' = address_data)]_vars
    /\ [](/\ pc \in {"classify", "calc_in", "calc_out", "done"} =>
                 /\ transactions = Get(responses[addr_index].body, "txs", <<>>)
                 /\ address_data = responses[addr_index].body
          /\ JustAppended =>
                 /\ results_list # <<>>
                 /\ results_list[Len(results_list)] = RecordAlone(addr_index)
          /\ pc = "returned" =>
                 \A j, k \in 1..Len(addresses) :
                     (/\ Succeeds(j) /\ Succeeds(k)
                      /\ addresses[j] = addresses[k]
                      /\ responses[j] = responses[k]) =>
                         /\ TableIndex(j) <= Len(results_list)
                         /\ TableIndex(k) <= Len(results_list)
                         /\ results_list[TableIndex(j)] = results_list[TableIndex(k)])

\* the same address with the same transactions first and last, after
\* nothing and after a record and an exception
C21_Witness ==
    /\ pc = "returned"
    /\ Len(addresses) = 3
    /\ addresses[1] = addresses[3]
    /\ responses[1] = responses[3]
    /\ Succeeds(1)
    /\ Get(responses[1].body, "txs", <<>>) # <<>>
    /\ RaisesException(2)
    /\ Len(results_list) = 2
    /\ results_list[1] = results_list[2]

\* C26: analyze_addresses terminates; fetch_address_data is called once
\* for each element of the address list, in the order of the list, none
\* twice and none left out, whatever the fetches and the processing end in;
\* the number of records returned is the number of addresses whose fetch
\* returned data and whose processing raised nothing, at most the length of
\* the list
C26_OneFetchPerAddress ==
    /\ <>(pc = "returned")
    /\ [](/\ pc \in AnalyzePositions
          /\ Len(fetch_calls) <= Len(addresses)
          /\ fetch_calls = SubSeq(addresses, 1, Len(fetch_calls))
          /\ Len(fetch_calls) = IF pc = "fetch" THEN addr_index - 1 ELSE addr_index
          /\ pc = "returned" =>
                 /\ fetch_calls = addresses
                 /\ Len(results_list) =
                        Cardinality({j \in 1..Len(addresses) : Succeeds(j)})
                 /\ Len(results_list) <= Len(addresses))

C26_Witness ==
    /\ pc = "returned"
    /\ Len(addresses) = 3
    /\ addresses[1] = addresses[2]
    /\ RaisesException(1)
    /\ FetchFailed(2)
    /\ Succeeds(3)
    /\ fetch_calls = addresses
    /\ Len(results_list) = 1

---------------------------------------------------------------------------
(* Claims about fetch_address_data and the delays *)

\* the call has ended: it returned data (the caller goes on to "classify"),
\* returned (None, None) (the caller continues at "for"), or raised
FetchEnded == pc \in {"classify", "for", "except"}

ReturnedData == pc = "classify"

ReturnedNone == pc = "for"

\* C23: a call of fetch_address_data ends; it issues at most max_retries
\* requests; each request that ends in a status other than 200 or in a
\* network error adds exactly one to retries and a 200 response adds none,
\* so that retries counts the failed requests; it returns (None, None)
\* exactly when max_retries requests were issued and all of them failed
C23_BoundedRetries ==
    /\ <>FetchEnded
    /\ [][(pc = "request") =>
              /\ requests' = requests + 1
              /\ retries' = IF pc' = "while" THEN retries + 1 ELSE retries]_vars
    /\ [](/\ requests <= max_retries
          /\ retries <= max_retries
          /\ pc \in {"while", "request"} => requests = retries
          /\ ReturnedNone =>
                 /\ transactions = NoneList
                 /\ address_data = NoneDict
                 /\ requests = max_retries
                 /\ retries = max_retries
          /\ (ReturnedData \/ pc = "except") =>
                 /\ transactions # NoneList
                 /\ address_data # NoneDict
                 /\ requests = retries + 1
                 /\ responses # <<>>
                 /\ responses[Len(responses)].status = 200)

C23_Witness ==
    /\ ReturnedNone
    /\ requests = max_retries
    /\ retries = max_retries
    /\ transactions = NoneList
    /\ responses = <<[status |-> 429]>>

\* a second case of C23: data after nine failed attempts
C23_WitnessLastAttempt ==
    /\ ReturnedData
    /\ requests = max_retries
    /\ retries = max_retries - 1
    /\ transactions = ExampleChange

\* what the call for the current address ended in
LastResponse == responses[addr_index]

C24_WitnessFirstAttempt ==
    /\ pc = "classify"
    /\ retries = 0
    /\ requests = 1
    /\ transactions = ExampleChange

\* the delay slept last, 0 when a request was the last event
LastSleep == IF sleeps = <<>> THEN 0 ELSE sleeps[Len(sleeps)]

\* C22: in a run of analyze_addresses each request is issued right after a
\* sleep of at least base_delay (sleeps lists the delays slept since the
\* last request, so no two requests follow each other without a delay),
\* and before the first request for the second and each later address the
\* delays slept since the last request are inter_address_delay and then
\* the delay of the first attempt, whatever the address before ended in
C22_RateLimiting ==
    /\ [][(requests' = requests + 1) =>
              /\ pc = "request"
              /\ sleeps # <<>>
              /\ LastSleep >= base_delay
              /\ (requests = 0 /\ addr_index > 1) =>
                     sleeps = <<inter_address_delay, base_delay>>]_vars
    /\ [](pc = "request" =>
              /\ LastSleep = base_delay * (retries + 1)
              /\ requests = 0 => Len(responses) = addr_index - 1)

\* the first request for the third address, after an address that was
\* skipped and one that raised
C22_Witness ==
    /\ pc = "request"
    /\ addr_index = 3
    /\ requests = 0
    /\ sleeps = <<inter_address_delay, base_delay>>
    /\ Len(responses) = 2
    /\ responses[1].status = 429
    /\ responses[2].status = 200
    /\ Get(responses[2].body, "txs", <<>>) = NoneList
    /\ results_list = <<>>

\* further cases of C22: after an address that added a record; a retry
\* after a network error
C22_WitnessAfterRecord ==
    /\ pc = "request"
    /\ addr_index = 2
    /\ requests = 0
    /\ sleeps = <<inter_address_delay, base_delay>>
    /\ Len(results_list) = 1

C22_WitnessRetry ==
    /\ pc = "request"
    /\ requests = 2
    /\ sleeps = <<3 * 2, base_delay * 3>>
===========================================================================
